---- MODULE Spec2Model ----
(***************************************************************************)
(* Model of the MSSQL MCP server of src/src/index.ts: the module-level     *)
(* connection session (globalSqlPool, globalAccessToken,                   *)
(* globalTokenExpiresOn), ensureSqlConnection, createSqlConfig, the server *)
(* factory and the tool handler it registers.                              *)
(*                                                                         *)
(* Time is counted in minutes.  A JavaScript async function runs without   *)
(* interruption between two awaits, so every action below is one such      *)
(* segment of a handler: from the call (or from the settlement of the      *)
(* awaited promise) up to the next await.                                  *)
(*                                                                         *)
(* The credential provider and the database driver are external.  The     *)
(* provider either rejects or yields a token (a fresh non-empty string,    *)
(* here a fresh number) with an optional expiry timestamp.  The driver's   *)
(* connect either rejects or yields a new pool that reports connected; a   *)
(* pool reports connected until its close() has resolved.                  *)
(*                                                                         *)
(* The tools are imported from ./tools and are not part of index.ts; the   *)
(* query validator of the read tool is modelled from section 4.2 of the    *)
(* specification, as a function on sequences of characters.                *)
(***************************************************************************)
EXTENDS Integers, Sequences, FiniteSets, TLC

\* ------------------------------------------------------------------ bounds
MaxInFlight == 2      \* handler invocations that may be in flight together
MaxTokens == 2        \* tokens requested from the provider in one behaviour
MaxTime == 3          \* last minute the clock reaches
LongTime == 30        \* last minute the clock reaches when it may jump

\* ------------------------------------------------------- program constants
Margin == 2           \* 2 * 60 * 1000 ms, the "2 min buffer"
DefaultLifetime == 30 \* 30 * 60 * 1000 ms, expiry when the provider gives none

NULL == 0             \* null pool / null token
NoDate == -1          \* null globalTokenExpiresOn

Invocations == 1..MaxInFlight

\* configurations handed to the factory (configSchema); connectionTimeout,
\* trustServerCertificate and useInteractiveBrowser only parameterise the
\* external calls
ReadOnly == [serverName |-> "s1", databaseName |-> "d1", readOnly |-> TRUE]
FullAccess == [serverName |-> "s2", databaseName |-> "d2", readOnly |-> FALSE]
Configs == {ReadOnly, FullAccess}

NoConfig == [serverName |-> "", databaseName |-> "", readOnly |-> FALSE]

\* offsets from now of the expiresOnTimestamp the provider may return
ExpiryOffsets == {3}

\* minutes the clock may jump by while nothing else happens
LongJumps == {25}

\* tool names, as listed in the README
ListTableTool == "list_tables"
ReadDataTool == "read_data"
DescribeTableTool == "describe_table"
InsertDataTool == "insert_data"
UpdateDataTool == "update_data"
CreateTableTool == "create_table"
CreateIndexTool == "create_index"
DropTableTool == "drop_table"

AllTools ==
  {ListTableTool, ReadDataTool, DescribeTableTool, InsertDataTool,
   UpdateDataTool, CreateTableTool, CreateIndexTool, DropTableTool}

\* the tools invoked concurrently: a read and a write
InvokedTools == {ReadDataTool, InsertDataTool}

VARIABLES
  now,                  \* Date.now(), in minutes
  globalSqlPool,        \* index into pools, or NULL
  globalAccessToken,    \* token, or NULL
  globalTokenExpiresOn, \* minute, or NoDate
  pools,                \* every pool sql.connect has returned, in order,
                        \* with the configuration and the provider's answer
                        \* it was opened with
  issued,               \* number of tokens requested from the provider
  servers,              \* configs for which the factory has built a server
  registered,           \* registered[cfg]: names passed to server.tool
  inv,                  \* inv[i]: the handler invocation in slot i, with
                        \* its locals, what it has called so far (log, ran),
                        \* the token and expiry stored when it began (entry),
                        \* the pool installed then and whether it reported
                        \* connected (found), the pool its run uses and
                        \* the provider's answer with its arrival time
  streak,               \* history: 1 right after an install of a valid
                        \* session, +1 per call that follows with no time
                        \* elapsed and no step of ensureSqlConnection between
  solo,                 \* history: the call begun last, if no other call
                        \* has taken a step since; whether its
                        \* ensureSqlConnection failed; whether it began
                        \* right after such a failure
  running,              \* the process has not exited
  sqlText,              \* the fragment handed to the query validator
  verdict               \* what the validator answered, "none" before

vars == <<now, globalSqlPool, globalAccessToken, globalTokenExpiresOn, pools,
          issued, servers, registered, inv, streak, solo, running, sqlText,
          verdict>>

\* what no step of a handler changes
static == <<running, sqlText, verdict>>

session == <<globalSqlPool, globalAccessToken, globalTokenExpiresOn>>

\* ----------------------------------------------------------------- helpers
NoResult == [kind |-> "none", success |-> FALSE, isError |-> FALSE]

\* the value the handler returns from its try block
ContentResult == [kind |-> "content", success |-> TRUE, isError |-> FALSE]

\* the value the handler returns from its catch block
CatchResult == [kind |-> "failure", success |-> FALSE, isError |-> TRUE]

NoSqlConfig ==
  [server |-> "", database |-> "", token |-> NULL, expiresOn |-> NoDate]

\* the object createSqlConfig returns
SqlConfig(cfg, tok, exp) ==
  [server |-> cfg.serverName, database |-> cfg.databaseName, token |-> tok,
   expiresOn |-> exp]

\* no token received
NoAccessToken == [expiresOnTimestamp |-> 0, at |-> NoDate]

\* a slot no handler runs in
IdleInv ==
  [pc |-> "idle", config |-> NoConfig, tool |-> "", request |-> 0,
   sqlConfig |-> NoSqlConfig, closing |-> NULL, log |-> <<>>, ran |-> FALSE,
   failed |-> "", result |-> NoResult, entry |-> <<NULL, NoDate>>,
   found |-> <<NULL, FALSE>>, using |-> NULL, accessToken |-> NoAccessToken]

\* mutant of tools: the mode is ignored
toolsIgnoringMode(readOnly) ==
  {InsertDataTool, ReadDataTool, DescribeTableTool, UpdateDataTool,
   CreateTableTool, CreateIndexTool, DropTableTool, ListTableTool}

\* the tools array of the factory
tools(readOnly) ==
  IF readOnly
    THEN {ListTableTool, ReadDataTool, DescribeTableTool}
    ELSE {InsertDataTool, ReadDataTool, DescribeTableTool, UpdateDataTool,
          CreateTableTool, CreateIndexTool, DropTableTool, ListTableTool}

\* mutant of ExpiresOn: the default lifetime is an hour
ExpiresOnHourDefault(ts) ==
  IF ts # 0 THEN ts ELSE now + 2 * DefaultLifetime

\* expiresOn of createSqlConfig; ts = 0 is a missing (falsy) timestamp
ExpiresOn(ts) ==
  IF ts # 0 THEN ts ELSE now + DefaultLifetime

\* mutant of SessionValid: the comparison is turned round
SessionValidLess ==
  /\ globalSqlPool # NULL
  /\ pools[globalSqlPool].connected
  /\ globalAccessToken # NULL
  /\ globalTokenExpiresOn # NoDate
  /\ globalTokenExpiresOn < now + Margin

\* mutant of SessionValid: the buffer is 2 hours
SessionValidHourMargin ==
  /\ globalSqlPool # NULL
  /\ pools[globalSqlPool].connected
  /\ globalAccessToken # NULL
  /\ globalTokenExpiresOn # NoDate
  /\ globalTokenExpiresOn > now + Margin * 60

\* mutant of SessionValid: the pool is not asked whether it is connected
SessionValidIgnoresPool ==
  /\ globalSqlPool # NULL
  /\ globalAccessToken # NULL
  /\ globalTokenExpiresOn # NoDate
  /\ globalTokenExpiresOn > now + Margin

\* the condition of the fast path of ensureSqlConnection
SessionValid ==
  /\ globalSqlPool # NULL
  /\ pools[globalSqlPool].connected
  /\ globalAccessToken # NULL
  /\ globalTokenExpiresOn # NoDate
  /\ globalTokenExpiresOn > now + Margin

\* mutant of NeedsClose: the test of connected is negated
NeedsCloseInverted ==
  /\ globalSqlPool # NULL
  /\ ~pools[globalSqlPool].connected

\* "Close old pool if exists"
NeedsClose ==
  /\ globalSqlPool # NULL
  /\ pools[globalSqlPool].connected

\* the handler of call r has returned res, after an error at `stage` if any:
\* its locals are gone, the slot keeps what the call did and returned
Finished(r, stage, res) ==
  [IdleInv EXCEPT !.pc = "done", !.log = r.log, !.ran = r.ran,
                  !.failed = stage, !.result = res, !.entry = r.entry,
                  !.found = r.found]

\* mutant of Caught: the catch block throws the error again
Rethrown(r, stage) ==
  Finished(r, stage, [kind |-> "thrown", success |-> FALSE, isError |-> FALSE])

\* the handler's catch block, entered with the error thrown at `stage`
Caught(r, stage) == Finished(r, stage, CatchResult)

\* the handler's return after tool.run has resolved
Returned(r) == Finished(r, "", ContentResult)

\* ensureSqlConnection has returned: the handler calls tool.run
StartRun(r) ==
  [r EXCEPT !.pc = "run", !.ran = TRUE]

\* mutant of OnTokenRejected: sql.connect is still attempted
OnTokenRejectedStillOpens(r) ==
  Caught([r EXCEPT !.log = Append(@, "open")], "token")

\* credential.getToken has rejected: createSqlConfig throws
OnTokenRejected(r) == Caught(r, "token")

\* sql.connect has rejected: ensureSqlConnection throws
OnConnectRejected(r) == Caught(r, "connect")

\* tool.run has rejected
OnRunRejected(r) == Caught(r, "run")

\* ------------------------------------------------- query safety validator
\* The validator of the read tool (./tools/ReadDataTool.js) follows the
\* ordered policy of section 4.2 of the specification.  A fragment is a
\* sequence of characters.
MaxFragments == 3     \* pieces a validated fragment is put together from

Whitespace == {" ", "\t", "\n", "\r"}

LowerCase ==
  <<"a", "b", "c", "d", "e", "f", "g", "h", "i", "j", "k", "l", "m",
    "n", "o", "p", "q", "r", "s", "t", "u", "v", "w", "x", "y", "z">>

UpperCase ==
  <<"A", "B", "C", "D", "E", "F", "G", "H", "I", "J", "K", "L", "M",
    "N", "O", "P", "Q", "R", "S", "T", "U", "V", "W", "X", "Y", "Z">>

Digits == {"0", "1", "2", "3", "4", "5", "6", "7", "8", "9"}

\* the characters of a word: letters, digits and the underscore
WordChars ==
  {LowerCase[k] : k \in 1..26} \cup {UpperCase[k] : k \in 1..26}
    \cup Digits \cup {"_"}

toUpperCase(c) ==
  IF \E k \in 1..26 : LowerCase[k] = c
    THEN UpperCase[CHOOSE k \in 1..26 : LowerCase[k] = c]
    ELSE c

\* the text with every letter in upper case
upper(text) == [k \in 1..Len(text) |-> toUpperCase(text[k])]

Min(S) == CHOOSE k \in S : \A m \in S : k <= m

Max(S) == CHOOSE k \in S : \A m \in S : m <= k

\* the text without its leading and trailing whitespace
trim(text) ==
  LET ks == {k \in 1..Len(text) : text[k] \notin Whitespace}
  IN IF ks = {} THEN <<>> ELSE SubSeq(text, Min(ks), Max(ks))

\* step 1: nothing but whitespace
isEmpty(text) == trim(text) = <<>>

\* step 2: a ";" followed by further non-whitespace content
hasSecondStatement(text) ==
  \E k \in 1..Len(text) :
    /\ text[k] = ";"
    /\ \E m \in (k + 1)..Len(text) : text[m] \notin Whitespace

\* word w, in upper case, stands at position k of the text in any case, with
\* a word boundary on either side
wholeWordAt(text, w, k) ==
  /\ k + Len(w) - 1 <= Len(text)
  /\ \A m \in 1..Len(w) : toUpperCase(text[k + m - 1]) = w[m]
  /\ k = 1 \/ text[k - 1] \notin WordChars
  /\ k + Len(w) > Len(text) \/ text[k + Len(w)] \notin WordChars

\* the fixed denylist of step 3: INSERT, UPDATE, DELETE, DROP, ALTER, CREATE,
\* TRUNCATE, EXEC, EXECUTE, MERGE, GRANT, REVOKE, BACKUP, RESTORE
Denylist ==
  {<<"I", "N", "S", "E", "R", "T">>,
   <<"U", "P", "D", "A", "T", "E">>,
   <<"D", "E", "L", "E", "T", "E">>,
   <<"D", "R", "O", "P">>,
   <<"A", "L", "T", "E", "R">>,
   <<"C", "R", "E", "A", "T", "E">>,
   <<"T", "R", "U", "N", "C", "A", "T", "E">>,
   <<"E", "X", "E", "C">>,
   <<"E", "X", "E", "C", "U", "T", "E">>,
   <<"M", "E", "R", "G", "E">>,
   <<"G", "R", "A", "N", "T">>,
   <<"R", "E", "V", "O", "K", "E">>,
   <<"B", "A", "C", "K", "U", "P">>,
   <<"R", "E", "S", "T", "O", "R", "E">>}

\* the leading keywords of step 5: SELECT, WITH
LeadingKeywords ==
  {<<"S", "E", "L", "E", "C", "T">>,
   <<"W", "I", "T", "H">>}

\* "SELECT * FROM Users"
SelectUsers ==
  <<"S", "E", "L", "E", "C", "T", " ", "*", " ", "F", "R", "O", "M", " ",
    "U", "s", "e", "r", "s">>

\* "SELECT 1; DROP TABLE Users"
SelectThenDrop ==
  <<"S", "E", "L", "E", "C", "T", " ", "1", ";", " ", "D", "R", "O", "P",
    " ", "T", "A", "B", "L", "E", " ", "U", "s", "e", "r", "s">>

\* "UPDATE Users SET x=1"
UpdateUsers ==
  <<"U", "P", "D", "A", "T", "E", " ", "U", "s", "e", "r", "s", " ", "S",
    "E", "T", " ", "x", "=", "1">>

\* "SELECT * FROM Updates"
SelectUpdates ==
  <<"S", "E", "L", "E", "C", "T", " ", "*", " ", "F", "R", "O", "M", " ",
    "U", "p", "d", "a", "t", "e", "s">>

\* "SELECT * FROM Users -- ; DROP TABLE Users"
SelectCommentDrop ==
  <<"S", "E", "L", "E", "C", "T", " ", "*", " ", "F", "R", "O", "M", " ",
    "U", "s", "e", "r", "s", " ", "-", "-", " ", ";", " ", "D", "R", "O",
    "P", " ", "T", "A", "B", "L", "E", " ", "U", "s", "e", "r", "s">>

\* "SELECT * FROM updates_log"
SelectUpdatesLog ==
  <<"S", "E", "L", "E", "C", "T", " ", "*", " ", "F", "R", "O", "M", " ",
    "u", "p", "d", "a", "t", "e", "s", "_", "l", "o", "g">>

\* pieces of text the validated fragments are put together from:
\*   "SELECT * FROM "
\*   "with t as (select 1) "
\*   "Users"
\*   "Updates"
\*   "update"
\*   "_log"
\*   "Drop"
\*   " "
\*   ";"
\*   "--"
\*   "/*"
Fragments ==
  {<<"S", "E", "L", "E", "C", "T", " ", "*", " ", "F", "R", "O", "M",
   " ">>,
   <<"w", "i", "t", "h", " ", "t", " ", "a", "s", " ", "(", "s", "e",
   "l", "e", "c", "t", " ", "1", ")", " ">>,
   <<"U", "s", "e", "r", "s">>,
   <<"U", "p", "d", "a", "t", "e", "s">>,
   <<"u", "p", "d", "a", "t", "e">>,
   <<"_", "l", "o", "g">>,
   <<"D", "r", "o", "p">>,
   <<" ">>,
   <<";">>,
   <<"-", "-">>,
   <<"/", "*">>}

\* mutant of hasDenylistedKeyword: a substring match
hasDenylistedSubstring(text) ==
  \E w \in Denylist, k \in 1..Len(text) :
    /\ k + Len(w) - 1 <= Len(text)
    /\ \A m \in 1..Len(w) : toUpperCase(text[k + m - 1]) = w[m]

\* step 3: a denylisted keyword as a whole word, in any case
hasDenylistedKeyword(text) ==
  \E w \in Denylist, k \in 1..Len(text) : wholeWordAt(text, w, k)

\* step 4: "--" or "/*" not immediately followed by the end of the input
hasComment(text) ==
  \E k \in 1..(Len(text) - 1) :
    /\ <<text[k], text[k + 1]>> \in {<<"-", "-">>, <<"/", "*">>}
    /\ k + 1 < Len(text)

\* the text after the line comment it begins with
afterLineComment(text) ==
  LET ks == {k \in 1..Len(text) : text[k] = "\n"}
  IN IF ks = {} THEN <<>> ELSE SubSeq(text, Min(ks) + 1, Len(text))

\* the text after the block comment it begins with
afterBlockComment(text) ==
  LET ks == {k \in 3..(Len(text) - 1) : text[k] = "*" /\ text[k + 1] = "/"}
  IN IF ks = {} THEN <<>> ELSE SubSeq(text, Min(ks) + 2, Len(text))

RECURSIVE stripLeading(_)
\* the text with leading whitespace and comments stripped
stripLeading(text) ==
  IF text = <<>> THEN text
  ELSE IF text[1] \in Whitespace THEN stripLeading(Tail(text))
  ELSE IF Len(text) >= 2 /\ <<text[1], text[2]>> = <<"-", "-">>
    THEN stripLeading(afterLineComment(text))
  ELSE IF Len(text) >= 2 /\ <<text[1], text[2]>> = <<"/", "*">>
    THEN stripLeading(afterBlockComment(text))
  ELSE text

\* step 5: the text begins with SELECT or WITH
hasReadPrefix(text) ==
  \E w \in LeadingKeywords : wholeWordAt(stripLeading(text), w, 1)

Accept == [accept |-> TRUE, reason |-> ""]

Reject(reason) == [accept |-> FALSE, reason |-> reason]

\* no answer yet
NoVerdict == [accept |-> FALSE, reason |-> "none"]

\* mutant of validate: the comment check comes before the separator check
validateCommentFirst(text, mode) ==
  IF isEmpty(text) THEN Reject("empty")
  ELSE IF hasComment(text) THEN Reject("disallowed comment")
  ELSE IF hasSecondStatement(text) THEN Reject("multi-statement")
  ELSE IF hasDenylistedKeyword(text) THEN Reject("denylisted keyword")
  ELSE IF ~hasReadPrefix(text) THEN Reject("non-SELECT prefix")
  ELSE Accept

\* validate(sqlText, mode): the ordered policy, first match wins; the mode
\* makes no difference to the read operation
validate(text, mode) ==
  IF isEmpty(text) THEN Reject("empty")
  ELSE IF hasSecondStatement(text) THEN Reject("multi-statement")
  ELSE IF hasDenylistedKeyword(text) THEN Reject("denylisted keyword")
  ELSE IF hasComment(text) THEN Reject("disallowed comment")
  ELSE IF ~hasReadPrefix(text) THEN Reject("non-SELECT prefix")
  ELSE Accept

RECURSIVE Texts(_)
\* the texts put together from at most n pieces
Texts(n) ==
  IF n = 0 THEN {<<>>}
  ELSE LET shorter == Texts(n - 1)
       IN shorter \cup {t \o f : t \in shorter, f \in Fragments}

\* the fragments handed to the validator
Inputs ==
  {SelectUsers, SelectThenDrop, UpdateUsers, SelectUpdates,
   SelectCommentDrop, SelectUpdatesLog} \cup Texts(MaxFragments)

\* ------------------------------------------------------------------- Init
\* the process has loaded the module; no fragment has been validated
Loaded ==
  /\ now = 0
  /\ globalSqlPool = NULL
  /\ globalAccessToken = NULL
  /\ globalTokenExpiresOn = NoDate
  /\ pools = <<>>
  /\ issued = 0
  /\ servers = {}
  /\ registered = [cfg \in Configs |-> {}]
  /\ inv = [i \in Invocations |-> IdleInv]
  /\ streak = 0
  /\ solo = [id |-> 0, failed |-> FALSE, retry |-> FALSE]
  /\ running = TRUE
  /\ verdict = NoVerdict

Init == Loaded /\ sqlText = <<>>

\* the read tool has been handed a fragment
InitValidate == Loaded /\ sqlText \in Inputs

\* history bookkeeping of a step taken by call i after its first one
SoloStep(i, fails) ==
  solo' = IF solo.id = i THEN [solo EXCEPT !.failed = fails]
                         ELSE [id |-> 0, failed |-> FALSE, retry |-> FALSE]

\* no handler runs in slot i
Free(i) == inv[i].pc \in {"idle", "done"}

\* ---------------------------------------------------------------- actions
\* The default export: build a server for cfg and register its tools.
CreateServer(cfg) ==
  /\ running
  /\ cfg \notin servers
  /\ servers' = servers \cup {cfg}
  /\ registered' = [registered EXCEPT ![cfg] = tools(cfg.readOnly)]
  /\ streak' = streak
  /\ UNCHANGED <<static,
                 now, globalSqlPool, globalAccessToken, globalTokenExpiresOn,
                 pools, issued, inv, solo>>

\* The handler of tool t of the server built for cfg is called:
\* ensureSqlConnection runs its check; on the fast path it returns and
\* tool.run is called, otherwise createSqlConfig calls credential.getToken
\* and awaits it.
Invoke(i, cfg, t) ==
  /\ running
  /\ Free(i)
  /\ \A j \in Invocations : j < i => ~Free(j)
  /\ cfg \in servers
  /\ t \in registered[cfg]
  /\ SessionValid \/ issued < MaxTokens
  /\ LET r == [IdleInv EXCEPT !.config = cfg, !.tool = t,
                              !.entry = <<globalAccessToken,
                                          globalTokenExpiresOn>>,
                              !.found = <<globalSqlPool,
                                          /\ globalSqlPool # NULL
                                          /\ pools[globalSqlPool].connected>>]
     IN IF SessionValid
          THEN /\ inv' = [inv EXCEPT ![i] =
                            [StartRun(r) EXCEPT !.using = globalSqlPool]]
               /\ issued' = issued
          ELSE /\ inv' = [inv EXCEPT ![i] =
                            [r EXCEPT !.pc = "getToken", !.request = issued + 1,
                                      !.log = <<"token">>]]
               /\ issued' = issued + 1
  /\ streak' = IF streak \in {1, 2} THEN streak + 1 ELSE 0
  /\ solo' = [id |-> i, failed |-> FALSE, retry |-> solo.failed]
  /\ UNCHANGED <<static,
                 now, globalSqlPool, globalAccessToken, globalTokenExpiresOn,
                 pools, servers, registered>>

\* getToken resolves with token tok (the provider's answer to the call's
\* request, a string no other request yields) and timestamp ts: createSqlConfig
\* returns, the token and expiry are stored, and either close() of the old
\* pool or sql.connect is called and awaited.
TokenResolve(i, tok, ts) ==
  /\ running
  /\ inv[i].pc = "getToken"
  /\ LET exp == ExpiresOn(ts)
         r == [inv[i] EXCEPT !.sqlConfig = SqlConfig(inv[i].config, tok, exp),
                             !.accessToken = [expiresOnTimestamp |-> ts,
                                              at |-> now]]
     IN /\ globalAccessToken' = tok
        /\ globalTokenExpiresOn' = exp
        /\ inv' = [inv EXCEPT ![i] =
                     IF NeedsClose
                       THEN [r EXCEPT !.pc = "close",
                                      !.closing = globalSqlPool,
                                      !.log = Append(@, "close")]
                       ELSE [r EXCEPT !.pc = "connect",
                                      !.log = Append(@, "open")]]
  /\ streak' = 0
  /\ SoloStep(i, FALSE)
  /\ UNCHANGED <<static,
                 now, globalSqlPool, pools, issued, servers, registered>>

\* mutant of TokenReject: the stored token and expiry are cleared
TokenRejectClearsToken(i) ==
  /\ running
  /\ inv[i].pc = "getToken"
  /\ inv' = [inv EXCEPT ![i] = OnTokenRejected(@)]
  /\ globalAccessToken' = NULL
  /\ globalTokenExpiresOn' = NoDate
  /\ streak' = 0
  /\ SoloStep(i, TRUE)
  /\ UNCHANGED <<static,
                 now, globalSqlPool, pools, issued, servers, registered>>

\* getToken rejects.
TokenReject(i) ==
  /\ running
  /\ inv[i].pc = "getToken"
  /\ inv' = [inv EXCEPT ![i] = OnTokenRejected(@)]
  /\ streak' = 0
  /\ SoloStep(i, TRUE)
  /\ UNCHANGED <<static,
                 now, globalSqlPool, globalAccessToken, globalTokenExpiresOn,
                 pools, issued, servers, registered>>

\* close() of the old pool resolves; sql.connect is called and awaited.
CloseResolve(i) ==
  /\ running
  /\ inv[i].pc = "close"
  /\ pools' = [pools EXCEPT ![inv[i].closing].connected = FALSE]
  /\ inv' = [inv EXCEPT ![i].pc = "connect", ![i].closing = NULL,
                        ![i].log = Append(@, "open")]
  /\ streak' = 0
  /\ SoloStep(i, FALSE)
  /\ UNCHANGED <<static,
                 now, globalSqlPool, globalAccessToken, globalTokenExpiresOn,
                 issued, servers, registered>>

\* sql.connect resolves with a new connected pool, which is installed;
\* ensureSqlConnection returns and tool.run is called.
ConnectResolve(i) ==
  /\ running
  /\ inv[i].pc = "connect"
  /\ pools' = Append(pools, [connected |-> TRUE, config |-> inv[i].sqlConfig,
                              acquired |-> inv[i].accessToken])
  /\ globalSqlPool' = Len(pools) + 1
  /\ inv' = [inv EXCEPT ![i] = [StartRun(@) EXCEPT !.using = Len(pools) + 1]]
  /\ streak' = IF globalTokenExpiresOn > now + Margin THEN 1 ELSE 0
  /\ SoloStep(i, FALSE)
  /\ UNCHANGED <<static, now, globalAccessToken, globalTokenExpiresOn, issued,
                 servers, registered>>

\* sql.connect rejects.
ConnectReject(i) ==
  /\ running
  /\ inv[i].pc = "connect"
  /\ inv' = [inv EXCEPT ![i] = OnConnectRejected(@)]
  /\ streak' = 0
  /\ SoloStep(i, TRUE)
  /\ UNCHANGED <<static,
                 now, globalSqlPool, globalAccessToken, globalTokenExpiresOn,
                 pools, issued, servers, registered>>

\* tool.run resolves; the handler returns the content.
RunResolve(i) ==
  /\ running
  /\ inv[i].pc = "run"
  /\ inv' = [inv EXCEPT ![i] = Returned(@)]
  /\ streak' = streak
  /\ SoloStep(i, FALSE)
  /\ UNCHANGED <<static,
                 now, globalSqlPool, globalAccessToken, globalTokenExpiresOn,
                 pools, issued, servers, registered>>

\* tool.run rejects.
RunReject(i) ==
  /\ running
  /\ inv[i].pc = "run"
  /\ inv' = [inv EXCEPT ![i] = OnRunRejected(@)]
  /\ streak' = streak
  /\ SoloStep(i, FALSE)
  /\ UNCHANGED <<static,
                 now, globalSqlPool, globalAccessToken, globalTokenExpiresOn,
                 pools, issued, servers, registered>>

\* A minute passes.
Tick ==
  /\ running
  /\ now < MaxTime
  /\ now' = now + 1
  /\ streak' = 0
  /\ UNCHANGED <<static,
                 globalSqlPool, globalAccessToken, globalTokenExpiresOn,
                 pools, issued, servers, registered, inv, solo>>

\* d minutes pass.
Sleep(d) ==
  /\ running
  /\ now + d <= LongTime
  /\ now' = now + d
  /\ streak' = 0
  /\ UNCHANGED <<static,
                 globalSqlPool, globalAccessToken, globalTokenExpiresOn,
                 pools, issued, servers, registered, inv, solo>>

\* The process exits.  The module registers no exit or signal handler and
\* the factory returns no hook that closes the pool, so no code runs.
Exit ==
  /\ running
  /\ running' = FALSE
  /\ UNCHANGED <<now, globalSqlPool, globalAccessToken, globalTokenExpiresOn,
                 pools, issued, servers, registered, inv, streak, solo,
                 sqlText, verdict>>

\* The read tool validates the fragment it was handed.
Validate(mode) ==
  /\ running
  /\ verdict = NoVerdict
  /\ verdict' = validate(sqlText, mode)
  /\ UNCHANGED <<now, globalSqlPool, globalAccessToken, globalTokenExpiresOn,
                 pools, issued, servers, registered, inv, streak, solo,
                 running, sqlText>>

\* the steps of the handlers in slots I of servers built for the configs C,
\* invoked for the tools T
NextOver(I, C, T) ==
  \/ \E cfg \in C : CreateServer(cfg)
  \/ \E i \in I, cfg \in C, t \in T : Invoke(i, cfg, t)
  \/ \E i \in I, d \in ExpiryOffsets : TokenResolve(i, inv[i].request, now + d)
  \/ \E i \in I : TokenResolve(i, inv[i].request, 0)
  \/ \E i \in I : TokenReject(i)
  \/ \E i \in I : CloseResolve(i)
  \/ \E i \in I : ConnectResolve(i)
  \/ \E i \in I : ConnectReject(i)
  \/ \E i \in I : RunResolve(i)
  \/ \E i \in I : RunReject(i)
  \/ Tick

\* concurrent invocations of the tools of one server
Next == NextOver(Invocations, {FullAccess}, InvokedTools)

Spec == Init /\ [][Next]_vars

\* invocations one after the other, of the tools of any of the servers
NextSeq == NextOver({1}, Configs, AllTools)

SpecSeq == Init /\ [][NextSeq]_vars

\* invocations of the read tool one after the other, until the process exits
NextExit == NextOver({1}, {FullAccess}, {ReadDataTool}) \/ Exit

SpecExit == Init /\ [][NextExit]_vars

\* invocations of the read tool one after the other, over half an hour
NextLong ==
  \/ NextOver({1}, {FullAccess}, {ReadDataTool})
  \/ \E d \in LongJumps : Sleep(d)

SpecLong == Init /\ [][NextLong]_vars

\* the validator applied to a fragment, in either mode
NextValidate == \E readOnly \in BOOLEAN : Validate(readOnly)

SpecValidate == InitValidate /\ [][NextValidate]_vars

\* ------------------------------------------------------------- properties
ConnectedPools == {p \in 1..Len(pools) : pools[p].connected}

\* call i is inside ensureSqlConnection, past its validity check
Refreshing(i) == inv[i].pc \in {"getToken", "close", "connect"}

\* this step is the call of a handler in slot i
Called(i) == Free(i) /\ ~Free(i)'

\* this step is a call that took the fast path: no token request, no close,
\* no open, and the session and the pools left as they were
FastPathCall(i) ==
  /\ Called(i)
  /\ inv'[i].pc = "run"
  /\ inv'[i].log = <<>>
  /\ UNCHANGED <<globalSqlPool, globalAccessToken, globalTokenExpiresOn,
                 pools, issued>>

\* this step is a call that requested a token from the provider
RefreshCall(i) ==
  /\ Called(i)
  /\ inv'[i].pc = "getToken"
  /\ inv'[i].log = <<"token">>
  /\ issued' = issued + 1

Count(log, e) == Cardinality({k \in 1..Len(log) : log[k] = e})

\* C1: under any interleaving of concurrent calls at most one pool opened by
\* the manager is connected at any instant.
C1_AtMostOneConnectedPool == Cardinality(ConnectedPools) <= 1

\* C2: the check-and-replace sequence is serialized: at no instant are two
\* calls both between their validity check and their install step.
C2_RefreshSerialized ==
  Cardinality({i \in Invocations : Refreshing(i)}) <= 1

\* C3: when ensureSqlConnection has failed at sql.connect, the stored token
\* and expiry are those stored when the call began.
C3_FailedOpenKeepsToken ==
  \A i \in Invocations :
    (inv[i].pc = "done" /\ inv[i].failed = "connect")
      => <<globalAccessToken, globalTokenExpiresOn>> = inv[i].entry

\* C4: a call made while a pool is installed and connected, a token is stored
\* and the stored expiry is more than 2 minutes after now takes the fast
\* path: no token request, no close, no open, session unchanged.
C4_ValidSessionIsReused ==
  [][\A i \in Invocations :
       ( /\ Called(i)
         /\ globalSqlPool # NULL
         /\ pools[globalSqlPool].connected
         /\ globalAccessToken # NULL
         /\ globalTokenExpiresOn # NoDate
         /\ globalTokenExpiresOn - now > 2 )
       => FastPathCall(i)]_vars

C4_Witness ==
  \E i \in Invocations :
    /\ inv[i].pc = "run"
    /\ inv[i].log = <<>>
    /\ inv[i].entry[2] = now + 3

\* C5: a call made with a stored expiry at most 2 minutes after now requests
\* a fresh token; and when a call opens its new pool, the pool it found
\* installed is not connected: if it was, the call has closed it first.
C5_CloseBeforeOpen ==
  [][\A i \in Invocations :
       /\ ( /\ Called(i)
            /\ globalTokenExpiresOn # NoDate
            /\ globalTokenExpiresOn - now <= 2 )
          => RefreshCall(i)
       /\ (inv[i].pc = "getToken" /\ inv'[i].pc = "connect")
          => /\ globalSqlPool = NULL \/ ~pools[globalSqlPool].connected
             /\ inv'[i].log = <<"token", "open">>
       /\ (inv[i].pc = "getToken" /\ inv'[i].pc = "close")
          => /\ inv'[i].closing = globalSqlPool
             /\ inv'[i].log = <<"token", "close">>
             /\ pools' = pools
       /\ (inv[i].pc = "close" /\ inv'[i].pc = "connect")
          => /\ ~pools'[inv[i].closing].connected
             /\ Len(pools') = Len(pools)
             /\ inv'[i].log = <<"token", "close", "open">>]_vars

C5_Witness ==
  \E i \in Invocations :
    /\ inv[i].pc = "run"
    /\ inv[i].log = <<"token", "close", "open">>
    /\ inv[i].entry[2] <= now
    /\ Cardinality(ConnectedPools) = 1

\* C6: right after a call has installed a session whose expiry is more than
\* 2 minutes out, two further calls with no time elapsed and nothing in
\* between both take the fast path and leave the session as installed.
C6_TwoCallsAfterInstall ==
  [][\A i \in Invocations :
       (Called(i) /\ streak \in {1, 2}) => FastPathCall(i)]_vars

C6_Witness ==
  /\ streak = 3
  /\ globalSqlPool # NULL
  /\ pools[globalSqlPool].config.token = globalAccessToken

\* C7: a read-only server registers exactly list_tables, read_data and
\* describe_table, so no handler of a write tool is ever invoked on it; a
\* full-access server registers all eight tools.
C7_ReadOnlyToolSet ==
  /\ \A cfg \in servers :
       registered[cfg] =
         IF cfg.readOnly
           THEN {"list_tables", "read_data", "describe_table"}
           ELSE {"list_tables", "read_data", "describe_table", "insert_data",
                 "update_data", "create_table", "create_index", "drop_table"}
  /\ \A i \in Invocations :
       (~Free(i) /\ inv[i].config.readOnly)
         => inv[i].tool \in {"list_tables", "read_data", "describe_table"}

C7_Witness ==
  /\ servers = Configs
  /\ \E i \in Invocations :
       inv[i].pc = "run" /\ inv[i].config.readOnly /\ inv[i].tool = "read_data"

\* C8: a handler whose token request, pool opening or tool run failed returns
\* a structured failure (success false, isError set), never throws, and does
\* not run the tool when ensureSqlConnection failed.
C8_FailuresAreResults ==
  \A i \in Invocations :
    inv[i].pc = "done" =>
      /\ inv[i].result.kind \in {"content", "failure"}
      /\ inv[i].failed # "" =>
           /\ inv[i].result.kind = "failure"
           /\ ~inv[i].result.success
           /\ inv[i].result.isError
      /\ inv[i].failed \in {"token", "connect"} => ~inv[i].ran
      /\ inv[i].failed \in {"", "run"} => inv[i].ran

C8_Witness ==
  \E i \in Invocations :
    /\ inv[i].pc = "done"
    /\ inv[i].failed = "connect"
    /\ inv[i].result.isError

\* C9: the call that follows a failed ensureSqlConnection, with no step of
\* another call in between, does not take the fast path: it requests a token
\* again; and the failed call itself made one token request and at most one
\* open attempt.
C9_RetryStartsOver ==
  [][\A i \in Invocations :
       solo.failed =>
         /\ Called(i) => RefreshCall(i)
         /\ inv[solo.id].pc = "done"
         /\ Count(inv[solo.id].log, "token") = 1
         /\ Count(inv[solo.id].log, "open") <= 1]_vars

C9_Witness ==
  /\ solo.retry
  /\ solo.id # 0
  /\ inv[solo.id].pc = "connect"

\* C10: a call that does not take the fast path makes exactly one token
\* request, first, and at most one open attempt, and none when the token
\* request failed.
C10_OneTokenOneOpen ==
  \A i \in Invocations :
    /\ (inv[i].pc \in {"getToken", "close", "connect"} \/ inv[i].failed \in {"token", "connect"})
         => inv[i].log # <<>>
    /\ inv[i].log # <<>> =>
         /\ inv[i].log[1] = "token"
         /\ Count(inv[i].log, "token") = 1
         /\ Count(inv[i].log, "open") <= 1
         /\ inv[i].failed = "token" => Count(inv[i].log, "open") = 0
         /\ inv[i].pc = "getToken" => Count(inv[i].log, "open") = 0

C10_Witness ==
  \E i \in Invocations :
    /\ inv[i].pc = "done"
    /\ inv[i].failed = "token"
    /\ inv[i].log = <<"token">>

MaximalWords(text) ==
  {SubSeq(text, ab[1], ab[2]) :
     ab \in {c \in (1..Len(text)) \X (1..Len(text)) :
               /\ c[1] <= c[2]
               /\ \A k \in c[1]..c[2] : text[k] \in WordChars
               /\ c[1] = 1 \/ text[c[1] - 1] \notin WordChars
               /\ c[2] = Len(text) \/ text[c[2] + 1] \notin WordChars}}

\* C12: a fragment is rejected for a denylisted keyword exactly when steps 1
\* and 2 let it pass and one of its words, taken whole and in any case, is on
\* the denylist; SELECT * FROM Updates and SELECT * FROM updates_log, which
\* hold a denylisted word only as part of a longer word, are accepted.
C12_WholeWordDenylist ==
  verdict # NoVerdict =>
    /\ verdict = Reject("denylisted keyword")
         <=> /\ verdict \notin {Reject("empty"), Reject("multi-statement")}
             /\ \E w \in MaximalWords(sqlText) : upper(w) \in Denylist
    /\ sqlText \in {SelectUpdates, SelectUpdatesLog} => verdict = Accept

C12_Witness ==
  /\ sqlText = SelectUpdatesLog
  /\ hasDenylistedSubstring(sqlText)
  /\ verdict = Accept

\* C13: once the process has exited, no pool the manager opened is still
\* connected.
C13_NoPoolConnectedAtExit == ~running => ConnectedPools = {}

\* C14: a call that closes a pool closes the one it found installed when it
\* decided to refresh, never one that another call has installed since.
C14_ClosesOnlyPoolFound ==
  \A i \in Invocations :
    inv[i].pc = "close" => inv[i].closing = inv[i].found[1]

\* C15: whenever the installed pool reports connected, the stored token and
\* expiry are those of the configuration that pool was opened with.
C15_SessionMatchesPool ==
  (globalSqlPool # NULL /\ pools[globalSqlPool].connected)
    => /\ globalAccessToken = pools[globalSqlPool].config.token
       /\ globalTokenExpiresOn = pools[globalSqlPool].config.expiresOn

\* C16: while a handler is in its run step, the pool it runs against (the one
\* installed when its ensureSqlConnection returned) reports connected.
C16_RunPoolStaysConnected ==
  \A i \in Invocations :
    inv[i].pc = "run"
      => /\ inv[i].using # NULL
         /\ pools[inv[i].using].connected

\* C17: when ensureSqlConnection(config) has returned and the tool runs, the
\* installed pool was opened with the server and database of that config.
C17_PoolOfSameConfig ==
  \A i \in Invocations :
    (inv[i].pc = "run" /\ inv[i].using # NULL)
      => /\ pools[inv[i].using].config.server = inv[i].config.serverName
         /\ pools[inv[i].using].config.database = inv[i].config.databaseName

\* C18: when the token request of a call has failed, the installed pool, its
\* connected status, the stored token and the stored expiry are as the call
\* found them, and the call has closed no pool and opened none.
C18_TokenFailureTouchesNothing ==
  \A i \in Invocations :
    (inv[i].pc = "done" /\ inv[i].failed = "token")
      => /\ globalSqlPool = inv[i].found[1]
         /\ (globalSqlPool # NULL /\ pools[globalSqlPool].connected)
              = inv[i].found[2]
         /\ <<globalAccessToken, globalTokenExpiresOn>> = inv[i].entry
         /\ inv[i].log = <<"token">>
         /\ Cardinality(ConnectedPools) = IF inv[i].found[2] THEN 1 ELSE 0

C18_Witness ==
  \E i \in Invocations :
    /\ inv[i].pc = "done"
    /\ inv[i].failed = "token"
    /\ inv[i].found = <<1, TRUE>>
    /\ inv[i].entry[1] # NULL
    /\ pools[1].connected

\* C19: a token that came without an expiry is recorded with the minute it
\* arrived plus 30, and one that came with an expiry with that expiry; a call
\* made while the pool opened with an expiry-less token is installed and
\* connected takes the fast path less than 28 minutes after the token
\* arrived and requests a fresh token from 28 minutes on.
C19_DefaultExpiryWindow ==
  [][\A i \in Invocations :
       /\ (inv[i].pc = "getToken" /\ inv'[i].pc \in {"close", "connect"})
          => /\ inv'[i].accessToken.at = now
             /\ globalTokenExpiresOn' =
                  IF inv'[i].accessToken.expiresOnTimestamp = 0
                    THEN now + 30
                    ELSE inv'[i].accessToken.expiresOnTimestamp
             /\ inv'[i].sqlConfig.expiresOn = globalTokenExpiresOn'
       /\ ( /\ Called(i)
            /\ globalSqlPool # NULL
            /\ pools[globalSqlPool].connected
            /\ pools[globalSqlPool].config.token = globalAccessToken
            /\ pools[globalSqlPool].acquired.expiresOnTimestamp = 0 )
          => /\ now - pools[globalSqlPool].acquired.at < 28
                  => FastPathCall(i)
             /\ now - pools[globalSqlPool].acquired.at >= 28
                  => RefreshCall(i)]_vars

C19_Witness ==
  \E i \in Invocations :
    /\ inv[i].pc = "getToken"
    /\ inv[i].found[2]
    /\ pools[inv[i].found[1]].connected
    /\ pools[inv[i].found[1]].acquired.expiresOnTimestamp = 0
    /\ now = pools[inv[i].found[1]].acquired.at + 28

====
